---- MODULE Spec2Model ----
(***************************************************************************)
(* Model of python/lolopy/loloserver.py: locating the lolo jar, probing    *)
(* for a Java installation, and creating or reusing the module-level       *)
(* py4j gateway.                                                           *)
(*                                                                         *)
(* The filesystem, the process environment and the 'java' command are the  *)
(* program's surroundings; the module-level global _lolopy_gateway and the *)
(* locals of every running get_java_gateway call are its state.            *)
(***************************************************************************)
EXTENDS Integers, Sequences, FiniteSets, TLC

VARIABLES
    dirs,            \* directories that exist (os.path.isdir)
    pom,             \* content of <_lolo_root>/pom.xml
    files,           \* regular files that exist (os.path.isfile)
    environ,         \* os.environ: a function from variable names to values
    javaCmd,         \* what run(['java', '-version']) does
    lolopy_gateway,  \* the global _lolopy_gateway (NoGateway is None)
    spawned,         \* number of bridge processes launched by launch_gateway
    running,         \* the bridge processes that were launched and have not been stopped
    th,              \* per thread: position in and locals of get_java_gateway
    last,            \* the latest direct call of find_lolo_jar / _java_is_installed
    returned,        \* history: the gateways handed to callers so far
    forced,          \* history: some call passed reuse=False
    firstStored      \* history: the first gateway stored in the global

env  == <<dirs, pom, files, environ, javaCmd>>
hist == <<returned, forced, firstStored>>
vars == <<dirs, pom, files, environ, javaCmd, lolopy_gateway, spawned, running, th, last,
          returned, forced, firstStored>>

----------------------------------------------------------------------------
(* Bounds *)

\* Largest number of bridge processes launched in one behaviour.
MaxSpawn == 3

Threads == {"t1", "t2"}
MainThread == "t1"

Versions == {"1.0", "2.0"}

----------------------------------------------------------------------------
(* Paths, files and the environment *)

NoPath == <<>>

\* os.path.join(_lolo_root, 'src', 'main', 'scala', 'io', 'citrine', 'lolo')
ScalaSourceDir == <<"lolo_root", "src", "main", "scala", "io", "citrine", "lolo">>

\* os.path.join(_lolo_root, 'target', 'lolo-{}-jar-with-dependencies.jar'.format(v))
DevJarPath(lolo_version) ==
    <<"lolo_root", "target", "lolo-", lolo_version, "-jar-with-dependencies.jar">>

\* os.path.join(os.path.dirname(__file__), 'jar', 'lolo-jar-with-dependencies.jar')
PkgJarPath == <<"lolopy", "jar", "lolo-jar-with-dependencies.jar">>

\* os.path.join(<home>, 'bin', 'java')
JavaBinPath(home) == <<home, "bin", "java">>

JavaHomes == {".", "/opt/jdk"}
JarPaths  == {DevJarPath(v) : v \in Versions} \cup {PkgJarPath}
AllFiles  == JarPaths \cup {JavaBinPath(h) : h \in JavaHomes}

isdir(p)  == p \in dirs
isfile(p) == p \in files

\* pom.xml: absent, not well-formed XML, without a <version> element, or
\* with <version>v</version>.
NoPom             == [kind |-> "missing",   version |-> ""]
BadPom            == [kind |-> "malformed", version |-> ""]
PomWithoutVersion == [kind |-> "noversion", version |-> ""]
PomFor(v)         == [kind |-> "ok",        version |-> v]
PomStates == {NoPom, BadPom, PomWithoutVersion} \cup {PomFor(v) : v \in Versions}

\* os.environ
EnvValues(k) == IF k = "JAVA_HOME" THEN {"/opt/jdk"} ELSE {"", "2g", "lots"}
EnvKeys  == {"JAVA_HOME", "LOLOPY_JVM_MEMORY"}
Environs == UNION {{e \in [D -> {"/opt/jdk", "", "2g", "lots"}] : \A k \in D : e[k] \in EnvValues(k)} :
                   D \in SUBSET EnvKeys}
NoEnviron == [k \in {} |-> ""]

\* os.environ.get(k, default)
EnvironGet(k, default) == IF k \in DOMAIN environ THEN environ[k] ELSE default

\* Output of 'java -version', as a sequence of words.
JavaBanner    == <<"java", "version", "1.8.0">>
OpenJdkBanner == <<"openjdk", "version", "11.0.2">>
Outputs       == {<<>>, JavaBanner, OpenJdkBanner}
NoJavaCmd     == [found |-> FALSE, stdout |-> <<>>, stderr |-> <<>>]
JavaCmds      == {NoJavaCmd} \cup [found : {TRUE}, stdout : Outputs, stderr : Outputs]

\* bytes.startswith
startswith(s, prefix) ==
    /\ Len(s) >= Len(prefix)
    /\ SubSeq(s, 1, Len(prefix)) = prefix

----------------------------------------------------------------------------
(* Exceptions *)

NoExc             == "none"
PomMissingErr     == "FileNotFoundError: pom.xml"
PomParseErr       == "ParseError"
PomVersionErr     == "AttributeError: 'NoneType' object has no attribute 'text'"
RebuildErr        == "RuntimeError: Current version of lolo jar not found. Try re-building project with make"
ReinstallErr      == "RuntimeError: Lolo not found. Try reinstalling lolo from PyPi."
NoJavaErr         == "ValueError: Cannot find Java installation. Java must be installed and on your PATH"
SpawnErr          == "FileNotFoundError: java"
LaunchErr         == "launch_gateway failed"

----------------------------------------------------------------------------
(* _is_development_installation *)

is_development_installation == isdir(ScalaSourceDir)

\* Variant: route 1 is taken also when ignore_env is set.
java_is_installed_env_always(ignore_env) ==
    IF isfile(JavaBinPath(EnvironGet("JAVA_HOME", ".")))
    THEN [ret |-> TRUE, exc |-> NoExc, ran |-> FALSE]
    ELSE IF ~javaCmd.found
         THEN [ret |-> FALSE, exc |-> SpawnErr, ran |-> TRUE]
         ELSE [ret |-> \/ startswith(javaCmd.stdout, <<"java", "version">>)
                       \/ startswith(javaCmd.stderr, <<"java", "version">>),
               exc |-> NoExc, ran |-> TRUE]

\* Variant: 'java -version' is run first, the file test is the fallback.
java_is_installed_probe_first(ignore_env) ==
    IF ~javaCmd.found
    THEN [ret |-> FALSE, exc |-> SpawnErr, ran |-> TRUE]
    ELSE IF \/ startswith(javaCmd.stdout, <<"java", "version">>)
            \/ startswith(javaCmd.stderr, <<"java", "version">>)
         THEN [ret |-> TRUE, exc |-> NoExc, ran |-> TRUE]
         ELSE [ret |-> ~ignore_env /\ isfile(JavaBinPath(EnvironGet("JAVA_HOME", "."))),
               exc |-> NoExc, ran |-> TRUE]

(* _java_is_installed: the value returned or the exception raised, and     *)
(* whether 'java -version' was run.                                        *)
java_is_installed(ignore_env) ==
    IF ~ignore_env /\ isfile(JavaBinPath(EnvironGet("JAVA_HOME", ".")))
    THEN [ret |-> TRUE, exc |-> NoExc, ran |-> FALSE]
    ELSE IF ~javaCmd.found
         THEN [ret |-> FALSE, exc |-> SpawnErr, ran |-> TRUE]
         ELSE [ret |-> \/ startswith(javaCmd.stdout, <<"java", "version">>)
                       \/ startswith(javaCmd.stderr, <<"java", "version">>),
               exc |-> NoExc, ran |-> TRUE]

\* Variant: a missing development jar falls back to the packaged jar.
find_lolo_jar_fallback(skip_devel_version) ==
    LET packaged(seen) ==
            IF ~isfile(PkgJarPath)
            THEN [path |-> NoPath, exc |-> ReinstallErr, reads |-> seen]
            ELSE [path |-> PkgJarPath, exc |-> NoExc, reads |-> seen]
    IN  IF ~skip_devel_version /\ is_development_installation
        THEN IF pom.kind = "missing"
             THEN [path |-> NoPath, exc |-> PomMissingErr, reads |-> {"marker", "pom"}]
             ELSE IF pom.kind = "malformed"
             THEN [path |-> NoPath, exc |-> PomParseErr, reads |-> {"marker", "pom"}]
             ELSE IF pom.kind = "noversion"
             THEN [path |-> NoPath, exc |-> PomVersionErr, reads |-> {"marker", "pom"}]
             ELSE IF ~isfile(DevJarPath(pom.version))
                  THEN packaged({"marker", "pom", "devjar", "pkgjar"})
                  ELSE [path |-> DevJarPath(pom.version), exc |-> NoExc,
                        reads |-> {"marker", "pom", "devjar"}]
        ELSE packaged(IF skip_devel_version THEN {"pkgjar"} ELSE {"marker", "pkgjar"})

\* Variant: skip_devel_version is not honoured.
find_lolo_jar_never_skips(skip_devel_version) ==
    IF is_development_installation
    THEN IF pom.kind = "missing"
         THEN [path |-> NoPath, exc |-> PomMissingErr, reads |-> {"marker", "pom"}]
         ELSE IF pom.kind = "malformed"
         THEN [path |-> NoPath, exc |-> PomParseErr, reads |-> {"marker", "pom"}]
         ELSE IF pom.kind = "noversion"
         THEN [path |-> NoPath, exc |-> PomVersionErr, reads |-> {"marker", "pom"}]
         ELSE IF ~isfile(DevJarPath(pom.version))
              THEN [path |-> NoPath, exc |-> RebuildErr,
                    reads |-> {"marker", "pom", "devjar"}]
              ELSE [path |-> DevJarPath(pom.version), exc |-> NoExc,
                    reads |-> {"marker", "pom", "devjar"}]
    ELSE IF ~isfile(PkgJarPath)
         THEN [path |-> NoPath, exc |-> ReinstallErr, reads |-> {"marker", "pkgjar"}]
         ELSE [path |-> PkgJarPath, exc |-> NoExc, reads |-> {"marker", "pkgjar"}]

\* Variant: the development jar is not tested for existence.
find_lolo_jar_unchecked(skip_devel_version) ==
    IF ~skip_devel_version /\ is_development_installation
    THEN IF pom.kind = "missing"
         THEN [path |-> NoPath, exc |-> PomMissingErr, reads |-> {"marker", "pom"}]
         ELSE IF pom.kind = "malformed"
         THEN [path |-> NoPath, exc |-> PomParseErr, reads |-> {"marker", "pom"}]
         ELSE IF pom.kind = "noversion"
         THEN [path |-> NoPath, exc |-> PomVersionErr, reads |-> {"marker", "pom"}]
         ELSE [path |-> DevJarPath(pom.version), exc |-> NoExc, reads |-> {"marker", "pom"}]
    ELSE IF ~isfile(PkgJarPath)
         THEN [path |-> NoPath, exc |-> ReinstallErr,
               reads |-> IF skip_devel_version THEN {"pkgjar"} ELSE {"marker", "pkgjar"}]
         ELSE [path |-> PkgJarPath, exc |-> NoExc,
               reads |-> IF skip_devel_version THEN {"pkgjar"} ELSE {"marker", "pkgjar"}]

\* Variant: the packaged branch raises the message of the development branch.
find_lolo_jar_same_message(skip_devel_version) ==
    IF ~skip_devel_version /\ is_development_installation
    THEN IF pom.kind = "missing"
         THEN [path |-> NoPath, exc |-> PomMissingErr, reads |-> {"marker", "pom"}]
         ELSE IF pom.kind = "malformed"
         THEN [path |-> NoPath, exc |-> PomParseErr, reads |-> {"marker", "pom"}]
         ELSE IF pom.kind = "noversion"
         THEN [path |-> NoPath, exc |-> PomVersionErr, reads |-> {"marker", "pom"}]
         ELSE IF ~isfile(DevJarPath(pom.version))
              THEN [path |-> NoPath, exc |-> RebuildErr,
                    reads |-> {"marker", "pom", "devjar"}]
              ELSE [path |-> DevJarPath(pom.version), exc |-> NoExc,
                    reads |-> {"marker", "pom", "devjar"}]
    ELSE IF ~isfile(PkgJarPath)
         THEN [path |-> NoPath, exc |-> RebuildErr,
               reads |-> IF skip_devel_version THEN {"pkgjar"} ELSE {"marker", "pkgjar"}]
         ELSE [path |-> PkgJarPath, exc |-> NoExc,
               reads |-> IF skip_devel_version THEN {"pkgjar"} ELSE {"marker", "pkgjar"}]

(* find_lolo_jar: the path returned or the exception raised, and what it   *)
(* looked at on the way.                                                   *)
find_lolo_jar(skip_devel_version) ==
    IF ~skip_devel_version /\ is_development_installation
    THEN IF pom.kind = "missing"
         THEN [path |-> NoPath, exc |-> PomMissingErr, reads |-> {"marker", "pom"}]
         ELSE IF pom.kind = "malformed"
         THEN [path |-> NoPath, exc |-> PomParseErr, reads |-> {"marker", "pom"}]
         ELSE IF pom.kind = "noversion"
         THEN [path |-> NoPath, exc |-> PomVersionErr, reads |-> {"marker", "pom"}]
         ELSE LET jar_path == DevJarPath(pom.version)
              IN  IF ~isfile(jar_path)
                  THEN [path |-> NoPath, exc |-> RebuildErr,
                        reads |-> {"marker", "pom", "devjar"}]
                  ELSE [path |-> jar_path, exc |-> NoExc,
                        reads |-> {"marker", "pom", "devjar"}]
    ELSE LET jar_path == PkgJarPath
             seen == IF skip_devel_version THEN {"pkgjar"} ELSE {"marker", "pkgjar"}
         IN  IF ~isfile(jar_path)
             THEN [path |-> NoPath, exc |-> ReinstallErr, reads |-> seen]
             ELSE [path |-> jar_path, exc |-> NoExc, reads |-> seen]

----------------------------------------------------------------------------
(* Direct calls of the two helper functions *)

NoCall == [op |-> "none", arg |-> FALSE, path |-> NoPath, ret |-> FALSE,
           exc |-> NoExc, reads |-> {}, ran |-> FALSE]

CallFindLoloJar(skip_devel_version) ==
    /\ last' = LET r == find_lolo_jar(skip_devel_version)
               IN  [op |-> "find_lolo_jar", arg |-> skip_devel_version, path |-> r.path,
                    ret |-> FALSE, exc |-> r.exc, reads |-> r.reads, ran |-> FALSE]
    /\ UNCHANGED <<env, lolopy_gateway, spawned, running, th, hist>>

CallJavaIsInstalled(ignore_env) ==
    /\ last' = LET r == java_is_installed(ignore_env)
               IN  [op |-> "_java_is_installed", arg |-> ignore_env, path |-> NoPath,
                    ret |-> r.ret, exc |-> r.exc, reads |-> {}, ran |-> r.ran]
    /\ UNCHANGED <<env, lolopy_gateway, spawned, running, th, hist>>

----------------------------------------------------------------------------
(* get_java_gateway, one action per step of a call *)

NoGateway == 0

Idle == [pc |-> "idle", reuse |-> TRUE, skip_devel_version |-> FALSE,
         java_options |-> <<>>, lolo_path |-> NoPath, gw |-> NoGateway,
         ret |-> NoGateway, exc |-> NoExc, steps |-> <<>>,
         seen |-> NoGateway, spawn0 |-> 0]

\* Variant: the value is appended without the '-Xmx' prefix.
JavaOptionsWithoutPrefix ==
    IF "LOLOPY_JVM_MEMORY" \in DOMAIN environ
    THEN <<<<environ["LOLOPY_JVM_MEMORY"]>>>>
    ELSE <<>>

\* Lines 81-85: the flag list built from LOLOPY_JVM_MEMORY.
JavaOptions ==
    IF "LOLOPY_JVM_MEMORY" \in DOMAIN environ
    THEN <<<<"-Xmx", environ["LOLOPY_JVM_MEMORY"]>>>>
    ELSE <<>>

\* Variant: a gateway is made on every call.
MakesGatewayAlways(reuse) == TRUE

\* Variant: the reuse flag is not looked at.
MakesGatewayIgnoringReuse(reuse) == lolopy_gateway = NoGateway

\* Variant: the reuse flag is read the wrong way round.
MakesGatewayInverted(reuse) == lolopy_gateway = NoGateway \/ reuse

\* Line 88: whether this call makes a gateway.
MakesGateway(reuse) == lolopy_gateway = NoGateway \/ ~reuse

\* Lines 78-88: entry, option list, and the test of the global.
Call(t, reuse, skip_devel_version) ==
    /\ th[t].pc = "idle"
    /\ th' = [th EXCEPT ![t] =
                [Idle EXCEPT !.pc = IF MakesGateway(reuse) THEN "find" ELSE "return",
                             !.reuse = reuse,
                             !.skip_devel_version = skip_devel_version,
                             !.java_options = JavaOptions,
                             !.seen = lolopy_gateway,
                             !.spawn0 = spawned]]
    /\ forced' = (forced \/ ~reuse)
    /\ UNCHANGED <<env, lolopy_gateway, spawned, running, last, returned, firstStored>>

Raise(t, e, step) ==
    th' = [th EXCEPT ![t].pc = "done", ![t].exc = e,
                     ![t].steps = Append(th[t].steps, step)]

\* Variant: Java is looked for before the jar.
FindChecksJavaFirst(t) ==
    /\ th[t].pc = "find"
    /\ LET j == java_is_installed(FALSE)
           r == find_lolo_jar(th[t].skip_devel_version)
       IN  IF j.exc # NoExc
           THEN Raise(t, j.exc, "check")
           ELSE IF ~j.ret
           THEN Raise(t, NoJavaErr, "check")
           ELSE IF r.exc # NoExc
           THEN Raise(t, r.exc, "find")
           ELSE th' = [th EXCEPT ![t].pc = "check", ![t].lolo_path = r.path,
                                 ![t].steps = Append(th[t].steps, "find")]
    /\ UNCHANGED <<env, lolopy_gateway, spawned, running, last, hist>>

\* Variant: the global is cleared before a new gateway is made.
FindResetsGateway(t) ==
    /\ th[t].pc = "find"
    /\ lolopy_gateway' = NoGateway
    /\ LET r == find_lolo_jar(th[t].skip_devel_version)
       IN  IF r.exc # NoExc
           THEN Raise(t, r.exc, "find")
           ELSE th' = [th EXCEPT ![t].pc = "check", ![t].lolo_path = r.path,
                                 ![t].steps = Append(th[t].steps, "find")]
    /\ UNCHANGED <<env, spawned, running, last, hist>>

\* Line 90: lolo_path = find_lolo_jar(skip_devel_version)
Find(t) ==
    /\ th[t].pc = "find"
    /\ LET r == find_lolo_jar(th[t].skip_devel_version)
       IN  IF r.exc # NoExc
           THEN Raise(t, r.exc, "find")
           ELSE th' = [th EXCEPT ![t].pc = "check", ![t].lolo_path = r.path,
                                 ![t].steps = Append(th[t].steps, "find")]
    /\ UNCHANGED <<env, lolopy_gateway, spawned, running, last, hist>>

\* Variant: the answer of _java_is_installed is not acted upon.
CheckJavaUnchecked(t) ==
    /\ th[t].pc = "check"
    /\ LET r == java_is_installed(FALSE)
       IN  IF r.exc # NoExc
           THEN Raise(t, r.exc, "check")
           ELSE th' = [th EXCEPT ![t].pc = "launch",
                                 ![t].steps = Append(th[t].steps, "check")]
    /\ UNCHANGED <<env, lolopy_gateway, spawned, running, last, hist>>

\* Lines 93-94: if not _java_is_installed(): raise ValueError
CheckJava(t) ==
    /\ th[t].pc = "check"
    /\ LET r == java_is_installed(FALSE)
       IN  IF r.exc # NoExc
           THEN Raise(t, r.exc, "check")
           ELSE IF ~r.ret
           THEN Raise(t, NoJavaErr, "check")
           ELSE th' = [th EXCEPT ![t].pc = "launch",
                                 ![t].steps = Append(th[t].steps, "check")]
    /\ UNCHANGED <<env, lolopy_gateway, spawned, running, last, hist>>

\* Lines 97-100: JavaGateway.launch_gateway(...) starts a bridge process and
\* returns a new gateway object.
Launch(t) ==
    /\ th[t].pc = "launch"
    /\ spawned < MaxSpawn
    /\ spawned' = spawned + 1
    /\ running' = running \cup {spawned + 1}
    /\ th' = [th EXCEPT ![t].pc = "store", ![t].gw = spawned + 1,
                        ![t].steps = Append(th[t].steps, "launch")]
    /\ UNCHANGED <<env, lolopy_gateway, last, hist>>

\* Variant: a failed launch clears the global.
LaunchFailsClearsGateway(t) ==
    /\ th[t].pc = "launch"
    /\ Raise(t, LaunchErr, "launch")
    /\ lolopy_gateway' = NoGateway
    /\ UNCHANGED <<env, spawned, running, last, hist>>

\* Lines 97-100: JavaGateway.launch_gateway(...) raises.
LaunchFails(t) ==
    /\ th[t].pc = "launch"
    /\ Raise(t, LaunchErr, "launch")
    /\ UNCHANGED <<env, lolopy_gateway, spawned, running, last, hist>>

\* Variant: a gateway already stored is kept, the new one is dropped.
StoreIfAbsent(t) ==
    /\ th[t].pc = "store"
    /\ lolopy_gateway' = IF lolopy_gateway = NoGateway THEN th[t].gw ELSE lolopy_gateway
    /\ firstStored' = IF firstStored = NoGateway THEN th[t].gw ELSE firstStored
    /\ th' = [th EXCEPT ![t].pc = "return"]
    /\ UNCHANGED <<env, spawned, running, last, returned, forced>>

\* Variant: the bridge process of the replaced gateway is shut down.
StoreTerminatesOld(t) ==
    /\ th[t].pc = "store"
    /\ lolopy_gateway' = th[t].gw
    /\ running' = running \ {lolopy_gateway}
    /\ firstStored' = IF firstStored = NoGateway THEN th[t].gw ELSE firstStored
    /\ th' = [th EXCEPT ![t].pc = "return"]
    /\ UNCHANGED <<env, spawned, last, returned, forced>>

\* Line 97: _lolopy_gateway = <the launched gateway>
Store(t) ==
    /\ th[t].pc = "store"
    /\ lolopy_gateway' = th[t].gw
    /\ firstStored' = IF firstStored = NoGateway THEN th[t].gw ELSE firstStored
    /\ th' = [th EXCEPT ![t].pc = "return"]
    /\ UNCHANGED <<env, spawned, running, last, returned, forced>>

\* Line 101: return _lolopy_gateway
Return(t) ==
    /\ th[t].pc = "return"
    /\ th' = [th EXCEPT ![t].pc = "done", ![t].ret = lolopy_gateway]
    /\ returned' = returned \cup {lolopy_gateway}
    /\ UNCHANGED <<env, lolopy_gateway, spawned, running, last, forced, firstStored>>

\* The caller has its answer; the thread is free for its next call.
Finish(t) ==
    /\ th[t].pc = "done"
    /\ th' = [th EXCEPT ![t] = Idle]
    /\ UNCHANGED <<env, lolopy_gateway, spawned, running, last, hist>>

----------------------------------------------------------------------------
(* Changes of the surroundings *)

CreateFile(f) ==
    /\ f \notin files
    /\ files' = files \cup {f}
    /\ UNCHANGED <<dirs, pom, environ, javaCmd, lolopy_gateway,
                 spawned, running, th, last, hist>>

RemoveFile(f) ==
    /\ f \in files
    /\ files' = files \ {f}
    /\ UNCHANGED <<dirs, pom, environ, javaCmd, lolopy_gateway,
                 spawned, running, th, last, hist>>

ToggleSourceDir ==
    /\ dirs' = IF ScalaSourceDir \in dirs THEN dirs \ {ScalaSourceDir}
               ELSE dirs \cup {ScalaSourceDir}
    /\ UNCHANGED <<pom, files, environ, javaCmd, lolopy_gateway,
                 spawned, running, th, last, hist>>

WritePom(p) ==
    /\ p # pom
    /\ pom' = p
    /\ UNCHANGED <<dirs, files, environ, javaCmd, lolopy_gateway,
                 spawned, running, th, last, hist>>

SetEnv(k, v) ==
    /\ EnvironGet(k, "unset") # v
    /\ environ' = [x \in DOMAIN environ \cup {k} |-> IF x = k THEN v ELSE environ[x]]
    /\ UNCHANGED <<dirs, pom, files, javaCmd, lolopy_gateway,
                 spawned, running, th, last, hist>>

UnsetEnv(k) ==
    /\ k \in DOMAIN environ
    /\ environ' = [x \in DOMAIN environ \ {k} |-> environ[x]]
    /\ UNCHANGED <<dirs, pom, files, javaCmd, lolopy_gateway,
                 spawned, running, th, last, hist>>

ChangeJavaCmd(c) ==
    /\ c # javaCmd
    /\ javaCmd' = c
    /\ UNCHANGED <<dirs, pom, files, environ, lolopy_gateway,
                 spawned, running, th, last, hist>>

----------------------------------------------------------------------------
(* Specifications *)

ProgramInit ==
    /\ lolopy_gateway = NoGateway
    /\ spawned = 0
    /\ running = {}
    /\ th = [t \in Threads |-> Idle]
    /\ last = NoCall
    /\ returned = {}
    /\ forced = FALSE
    /\ firstStored = NoGateway

\* The helper functions, applied in every state of the surroundings.
FnInit ==
    /\ dirs \in SUBSET {ScalaSourceDir}
    /\ pom \in PomStates
    /\ files \in SUBSET AllFiles
    /\ environ \in {e \in Environs : "LOLOPY_JVM_MEMORY" \notin DOMAIN e}
    /\ javaCmd \in JavaCmds
    /\ ProgramInit

FnNext ==
    \/ \E b \in BOOLEAN : CallFindLoloJar(b)
    \/ \E b \in BOOLEAN : CallJavaIsInstalled(b)

FnSpec == FnInit /\ [][FnNext]_vars

\* One caller at a time, in surroundings that change between and during calls.
SeqFiles   == {DevJarPath("1.0"), PkgJarPath, JavaBinPath(".")}
SeqPoms    == {PomFor("1.0"), PomFor("2.0"), NoPom}
SeqCmds    == {NoJavaCmd,
               [found |-> TRUE, stdout |-> <<>>, stderr |-> JavaBanner],
               [found |-> TRUE, stdout |-> <<>>, stderr |-> OpenJdkBanner]}
SeqMemory  == {"", "2g", "lots"}

SeqInit ==
    /\ dirs \in SUBSET {ScalaSourceDir}
    /\ pom = PomFor("1.0")
    /\ files = {DevJarPath("1.0"), PkgJarPath}
    /\ environ = NoEnviron
    /\ javaCmd = [found |-> TRUE, stdout |-> <<>>, stderr |-> JavaBanner]
    /\ ProgramInit

SeqNext ==
    \/ \E r, s \in BOOLEAN : Call(MainThread, r, s)
    \/ Find(MainThread)
    \/ CheckJava(MainThread)
    \/ Launch(MainThread)
    \/ LaunchFails(MainThread)
    \/ Store(MainThread)
    \/ Return(MainThread)
    \/ Finish(MainThread)
    \/ \E f \in SeqFiles : CreateFile(f)
    \/ \E f \in SeqFiles : RemoveFile(f)
    \/ ToggleSourceDir
    \/ \E p \in SeqPoms : WritePom(p)
    \/ \E v \in SeqMemory : SetEnv("LOLOPY_JVM_MEMORY", v)
    \/ UnsetEnv("LOLOPY_JVM_MEMORY")
    \/ \E c \in SeqCmds : ChangeJavaCmd(c)

SeqSpec == SeqInit /\ [][SeqNext]_vars

\* Several callers at once, in a packaged installation.
Init ==
    /\ dirs = {}
    /\ pom = NoPom
    /\ files = {PkgJarPath}
    /\ environ = NoEnviron
    /\ javaCmd = [found |-> TRUE, stdout |-> <<>>, stderr |-> JavaBanner]
    /\ ProgramInit

Next ==
    \/ \E t \in Threads : \E r, s \in BOOLEAN : Call(t, r, s)
    \/ \E t \in Threads : Find(t)
    \/ \E t \in Threads : CheckJava(t)
    \/ \E t \in Threads : Launch(t)
    \/ \E t \in Threads : LaunchFails(t)
    \/ \E t \in Threads : Store(t)
    \/ \E t \in Threads : Return(t)
    \/ \E t \in Threads : Finish(t)
    \/ CreateFile(PkgJarPath)
    \/ RemoveFile(PkgJarPath)
    \/ \E c \in SeqCmds : ChangeJavaCmd(c)

Spec == Init /\ [][Next]_vars

----------------------------------------------------------------------------
(* Properties *)

FullSequence == <<"find", "check", "launch">>

\* The surroundings in which both routes of _java_is_installed() say no:
\* no file at <JAVA_HOME or '.'>/bin/java, and 'java -version' runs but
\* prints no 'java version' banner on either stream.
NoRuntimeFound ==
    /\ JavaBinPath(IF "JAVA_HOME" \in DOMAIN environ THEN environ["JAVA_HOME"] ELSE ".")
          \notin files
    /\ javaCmd.found
    /\ javaCmd.stdout # JavaBanner
    /\ javaCmd.stderr # JavaBanner

\* C1: in a sequential run whose calls all pass reuse=True, once a gateway
\* has been launched and stored, exactly one bridge process has been
\* spawned, the global holds that first gateway, and every call that has
\* returned, returned it without raising -- whatever skip_devel_version was
\* and however files, pom.xml, environment and the java command changed.
C1_ReuseReturnsFirstGateway ==
    (~forced /\ firstStored # NoGateway) =>
        /\ spawned = 1
        /\ lolopy_gateway = firstStored
        /\ returned \subseteq {firstStored}
        /\ \A t \in Threads :
              th[t].pc = "done" => (th[t].exc = NoExc /\ th[t].ret = firstStored)

\* A later reuse=True call with skip_devel_version=True has returned the
\* first gateway although the packaged jar and the java command are gone.
C1_Witness ==
    /\ ~forced
    /\ firstStored = 1
    /\ th[MainThread].pc = "done"
    /\ th[MainThread].seen = 1
    /\ th[MainThread].skip_devel_version
    /\ th[MainThread].ret = 1
    /\ PkgJarPath \notin files
    /\ javaCmd = NoJavaCmd

\* C2: in a sequential run, a reuse=False call always starts with
\* find_lolo_jar, also when the global already holds a gateway; when the
\* call returns it has run find_lolo_jar, the Java check and the launch in
\* this order, the spawn count is one more than at its start, and the
\* gateway returned was not returned by any earlier call.
C2_FreshCallLaunchesAnew ==
    /\ [](\A t \in Threads :
            (th[t].pc \in {"check", "launch", "store", "return", "done"} /\ ~th[t].reuse)
               => (th[t].steps # <<>> /\ th[t].steps[1] = "find"))
    /\ [][\A t \in Threads :
            (th[t].pc = "return" /\ th'[t].pc = "done" /\ ~th[t].reuse)
               => /\ th'[t].steps = FullSequence
                  /\ th'[t].exc = NoExc
                  /\ spawned' = th[t].spawn0 + 1
                  /\ th'[t].ret # NoGateway
                  /\ th'[t].ret \notin returned]_vars

\* A reuse=False call made while the global held gateway 1, which had been
\* returned before, has returned gateway 2.
C2_Witness ==
    /\ th[MainThread].pc = "done"
    /\ ~th[MainThread].reuse
    /\ th[MainThread].seen = 1
    /\ th[MainThread].spawn0 = 1
    /\ th[MainThread].ret = 2
    /\ returned = {1, 2}

\* C3: with concurrent callers and no reuse=False call so far, every
\* reuse=True call that found a gateway in the global returns the first
\* gateway that was ever stored, and the global never holds anything but
\* None or the gateway of a completed launch.
C3_StoredGatewayIsObservedByAll ==
    /\ lolopy_gateway \in 0..spawned
    /\ ~forced =>
          \A t \in Threads :
              (th[t].pc = "done" /\ th[t].reuse /\ th[t].seen # NoGateway)
                 => th[t].ret = firstStored

\* C4: a reuse=True call that finds a gateway in the global goes straight
\* to the return statement: it runs neither find_lolo_jar nor the Java
\* check, launches nothing, raises nothing and returns that gateway.
C4_CachedPathDoesNothingElse ==
    \A t \in Threads :
        (th[t].pc # "idle" /\ th[t].reuse /\ th[t].seen # NoGateway) =>
            /\ th[t].pc \in {"return", "done"}
            /\ th[t].steps = <<>>
            /\ th[t].exc = NoExc
            /\ spawned = th[t].spawn0
            /\ th[t].pc = "done" => th[t].ret = th[t].seen

\* A reuse=True call has returned the stored gateway in surroundings where
\* both jars are gone and no Java can be found.
C4_Witness ==
    /\ th[MainThread].pc = "done"
    /\ th[MainThread].reuse
    /\ th[MainThread].seen # NoGateway
    /\ th[MainThread].ret = th[MainThread].seen
    /\ files = {}
    /\ javaCmd = NoJavaCmd

\* C5: find_lolo_jar(skip_devel_version=False) in a development checkout
\* whose pom.xml names version V returns target/lolo-V-jar-with-dependencies.jar
\* if that file exists and otherwise raises the rebuild error; it never
\* returns the packaged jar.
C5_DevelopmentJarOrRebuildError ==
    (/\ last.op = "find_lolo_jar"
     /\ ~last.arg
     /\ ScalaSourceDir \in dirs
     /\ pom.kind = "ok") =>
        /\ last.path # PkgJarPath
        /\ IF <<"lolo_root", "target", "lolo-", pom.version, "-jar-with-dependencies.jar">>
                 \in files
           THEN /\ last.exc = NoExc
                /\ last.path = <<"lolo_root", "target", "lolo-", pom.version,
                                 "-jar-with-dependencies.jar">>
           ELSE /\ last.exc = RebuildErr
                /\ last.path = NoPath

\* The rebuild error was raised although the packaged jar and the jar of
\* the other version exist.
C5_Witness ==
    /\ last.op = "find_lolo_jar"
    /\ ~last.arg
    /\ ScalaSourceDir \in dirs
    /\ pom = PomFor("2.0")
    /\ DevJarPath("2.0") \notin files
    /\ DevJarPath("1.0") \in files
    /\ PkgJarPath \in files
    /\ last.exc = RebuildErr

\* C6: find_lolo_jar(skip_devel_version=True) in a development checkout
\* reads neither pom.xml nor the development jar; it returns the packaged
\* path if the packaged jar exists and raises the reinstall error if not.
C6_SkipUsesPackagedJarOnly ==
    (/\ last.op = "find_lolo_jar"
     /\ last.arg
     /\ ScalaSourceDir \in dirs) =>
        /\ last.reads \cap {"pom", "devjar"} = {}
        /\ IF PkgJarPath \in files
           THEN last.exc = NoExc /\ last.path = PkgJarPath
           ELSE last.exc = ReinstallErr /\ last.path = NoPath

\* The reinstall error was raised in a checkout whose pom.xml is valid and
\* whose development jar exists.
C6_Witness ==
    /\ last.op = "find_lolo_jar"
    /\ last.arg
    /\ ScalaSourceDir \in dirs
    /\ pom = PomFor("1.0")
    /\ DevJarPath("1.0") \in files
    /\ PkgJarPath \notin files
    /\ last.exc = ReinstallErr

\* C7: find_lolo_jar either returns the path of an existing file or raises
\* and returns nothing, for every state of the filesystem and both values
\* of skip_devel_version.
C7_ReturnedPathExists ==
    last.op = "find_lolo_jar" =>
        \/ (last.exc = NoExc /\ last.path \in files)
        \/ (last.exc # NoExc /\ last.path = NoPath)

\* The development jar of version 2.0 was returned; it is the only jar
\* that exists.
C7_Witness ==
    /\ last.op = "find_lolo_jar"
    /\ ~last.arg
    /\ last.exc = NoExc
    /\ last.path = DevJarPath("2.0")
    /\ files \cap JarPaths = {DevJarPath("2.0")}

\* C8: when _java_is_installed runs 'java -version' and the executable is
\* not found, it returns False and raises nothing.
C8_SpawnFailureGivesFalse ==
    (/\ last.op = "_java_is_installed"
     /\ last.ran
     /\ ~javaCmd.found) =>
        (last.exc = NoExc /\ last.ret = FALSE)

\* C9: a call that reaches the Java check (no reusable gateway, jar found)
\* while no runtime can be found leaves the check with the
\* 'Cannot find Java installation' ValueError, without launching a bridge
\* process and without touching the global.
C9_NoRuntimeRaisesAndLaunchesNothing ==
    /\ [][\A t \in Threads :
            (th[t].pc = "check" /\ th'[t].pc # "check" /\ NoRuntimeFound)
               => /\ th'[t].pc = "done"
                  /\ th'[t].exc = NoJavaErr
                  /\ spawned' = spawned
                  /\ lolopy_gateway' = lolopy_gateway]_vars
    /\ [](\A t \in Threads :
            (th[t].pc = "done" /\ th[t].exc = NoJavaErr)
               => (th[t].steps = <<"find", "check">> /\ spawned = th[t].spawn0))

\* A reuse=False call made while a gateway was stored has ended with the
\* ValueError; the stored gateway is still the only one launched.
C9_Witness ==
    /\ th[MainThread].pc = "done"
    /\ th[MainThread].exc = NoJavaErr
    /\ ~th[MainThread].reuse
    /\ th[MainThread].seen = 1
    /\ lolopy_gateway = 1
    /\ spawned = 1

\* C10: the outcome of _java_is_installed(ignore_env=True) is the outcome
\* of 'java -version' and nothing else: it always runs the command, and
\* its result is the same whatever JAVA_HOME is and whether or not a file
\* exists at <JAVA_HOME>/bin/java or ./bin/java.
C10_IgnoreEnvIsSpawnProbeOnly ==
    (last.op = "_java_is_installed" /\ last.arg) =>
        /\ last.ran
        /\ IF javaCmd.found
           THEN /\ last.exc = NoExc
                /\ last.ret = (javaCmd.stdout = JavaBanner \/ javaCmd.stderr = JavaBanner)
           ELSE last.exc = SpawnErr

\* With JAVA_HOME set and a file at $JAVA_HOME/bin/java, the call with
\* ignore_env=True answered False because 'java -version' printed an
\* OpenJDK banner.
C10_Witness ==
    /\ last.op = "_java_is_installed"
    /\ last.arg
    /\ "JAVA_HOME" \in DOMAIN environ
    /\ JavaBinPath(environ["JAVA_HOME"]) \in files
    /\ javaCmd = [found |-> TRUE, stdout |-> <<>>, stderr |-> OpenJdkBanner]
    /\ last.exc = NoExc
    /\ last.ret = FALSE

\* C11: the flag list a call builds is exactly <<'-Xmx' + v>> when
\* LOLOPY_JVM_MEMORY is set to a non-empty value v at the time of the call
\* ('2g' gives '-Xmx2g'; 'lots', no valid heap size, gives '-Xmxlots'), and
\* empty when the variable is unset; the list is not changed afterwards,
\* so it is the list the launch receives.
C11_HeapFlagFromEnvironment ==
    /\ [][\A t \in Threads :
            (th[t].pc = "idle" /\ th'[t].pc # "idle") =>
                /\ "LOLOPY_JVM_MEMORY" \notin DOMAIN environ
                      => th'[t].java_options = <<>>
                /\ ("LOLOPY_JVM_MEMORY" \in DOMAIN environ
                       /\ environ["LOLOPY_JVM_MEMORY"] # "")
                      => /\ Len(th'[t].java_options) = 1
                         /\ th'[t].java_options[1] = <<"-Xmx", environ["LOLOPY_JVM_MEMORY"]>>]_vars
    /\ [][\A t \in Threads :
            (th[t].pc # "idle" /\ th'[t].pc # "idle")
               => th'[t].java_options = th[t].java_options]_vars

\* A gateway was launched with the single flag -Xmx2g, and the variable
\* has been unset since.
C11_Witness ==
    /\ th[MainThread].pc = "store"
    /\ th[MainThread].java_options = <<<<"-Xmx", "2g">>>>
    /\ "LOLOPY_JVM_MEMORY" \notin DOMAIN environ

\* C12: without the development marker directory and without the packaged
\* jar, find_lolo_jar raises the reinstall error; the reinstall error is
\* raised only by the packaged branch and the rebuild error only by the
\* development branch, so a caller can tell the two situations apart.
C12_ReinstallAndRebuildErrorsDiffer ==
    last.op = "find_lolo_jar" =>
        /\ (ScalaSourceDir \notin dirs /\ PkgJarPath \notin files)
              => last.exc = ReinstallErr
        /\ last.exc = ReinstallErr
              => ((last.arg \/ ScalaSourceDir \notin dirs) /\ PkgJarPath \notin files)
        /\ last.exc = RebuildErr
              => (~last.arg /\ ScalaSourceDir \in dirs /\ pom.kind = "ok"
                  /\ DevJarPath(pom.version) \notin files)

\* A fresh environment: no checkout, no jar at all, reinstall error.
C12_Witness ==
    /\ last.op = "find_lolo_jar"
    /\ ~last.arg
    /\ dirs = {}
    /\ files \cap JarPaths = {}
    /\ last.exc = ReinstallErr

\* C15: a call made while LOLOPY_JVM_MEMORY is set to the empty string
\* builds an empty flag list.
C15_EmptyMemoryGivesNoFlag ==
    [][\A t \in Threads :
          (/\ th[t].pc = "idle"
           /\ th'[t].pc # "idle"
           /\ "LOLOPY_JVM_MEMORY" \in DOMAIN environ
           /\ environ["LOLOPY_JVM_MEMORY"] = "")
             => th'[t].java_options = <<>>]_vars

\* C13: nothing stops two reuse=True callers that both found the global
\* empty from each launching: two such callers that have both launched
\* hold two different gateways (so at least two bridge processes were
\* spawned), and every store overwrites the global with the storing
\* caller's gateway, so the last store wins.
C13_RacingCallersEachLaunch ==
    /\ [](\A t, u \in Threads :
            (/\ t # u
             /\ th[t].reuse /\ th[t].seen = NoGateway /\ th[t].gw # NoGateway
             /\ th[u].reuse /\ th[u].seen = NoGateway /\ th[u].gw # NoGateway)
               => (th[t].gw # th[u].gw /\ spawned >= 2))
    /\ [][\A t \in Threads :
            (th[t].pc = "store" /\ th'[t].pc = "return")
               => lolopy_gateway' = th[t].gw]_vars

\* Both callers passed reuse=True and found the global empty; two bridge
\* processes were spawned; the callers got different gateways and the
\* global holds the one stored last.
C13_Witness ==
    /\ \A t \in Threads :
          th[t].pc = "done" /\ th[t].reuse /\ th[t].seen = NoGateway /\ th[t].exc = NoExc
    /\ spawned = 2
    /\ th["t1"].ret = 1
    /\ th["t2"].ret = 2
    /\ th["t1"].gw = 1
    /\ lolopy_gateway = 2

\* C14: in a sequential run every call that returns a gateway returns the
\* most recently launched one, and between calls the global holds the
\* most recently launched one; in particular a reuse=True call that
\* follows a successful reuse=False call returns the new gateway.
C14_GlobalHoldsLatestGateway ==
    \A t \in Threads :
        /\ (th[t].pc = "done" /\ th[t].exc = NoExc) => th[t].ret = spawned
        /\ th[MainThread].pc \in {"idle", "done", "return"} => lolopy_gateway = spawned

\* After a forced fresh launch produced gateway 2, a reuse=True call found
\* gateway 2 in the global and returned it.
C14_Witness ==
    /\ forced
    /\ th[MainThread].pc = "done"
    /\ th[MainThread].reuse
    /\ th[MainThread].seen = 2
    /\ th[MainThread].ret = 2
    /\ spawned = 2
    /\ returned = {1, 2}

\* C16: a call whose find_lolo_jar raises ends there with that very
\* exception: the Java check and the launch are not run, nothing is
\* spawned -- also when no Java could be found either.
C16_JarErrorComesFirst ==
    /\ [][\A t \in Threads :
            (th[t].pc = "find" /\ th'[t].pc # "find"
               /\ find_lolo_jar(th[t].skip_devel_version).exc # NoExc)
               => /\ th'[t].pc = "done"
                  /\ th'[t].exc = find_lolo_jar(th[t].skip_devel_version).exc
                  /\ th'[t].steps = <<"find">>
                  /\ spawned' = spawned]_vars
    /\ [](\A t \in Threads :
            (th[t].pc = "done"
               /\ th[t].exc \in {RebuildErr, ReinstallErr, PomMissingErr, PomParseErr,
                                 PomVersionErr})
               => (th[t].steps = <<"find">> /\ spawned = th[t].spawn0))

\* The reinstall error reached the caller while neither route to Java
\* would have succeeded.
C16_Witness ==
    /\ th[MainThread].pc = "done"
    /\ th[MainThread].exc = ReinstallErr
    /\ th[MainThread].steps = <<"find">>
    /\ JavaBinPath(".") \notin files
    /\ javaCmd = NoJavaCmd

\* C17: _java_is_installed(ignore_env=False) with a file at
\* <JAVA_HOME>/bin/java, or at ./bin/java when JAVA_HOME is unset, returns
\* True without running 'java -version', whatever that command would do.
C17_JavaHomeFileShortCircuits ==
    (/\ last.op = "_java_is_installed"
     /\ ~last.arg
     /\ <<(IF "JAVA_HOME" \in DOMAIN environ THEN environ["JAVA_HOME"] ELSE "."),
          "bin", "java">> \in files) =>
        /\ last.ret = TRUE
        /\ last.exc = NoExc
        /\ ~last.ran

\* JAVA_HOME is unset, ./bin/java exists, there is no java command to
\* spawn, and the answer was True.
C17_Witness ==
    /\ last.op = "_java_is_installed"
    /\ ~last.arg
    /\ "JAVA_HOME" \notin DOMAIN environ
    /\ JavaBinPath(".") \in files
    /\ JavaBinPath("/opt/jdk") \notin files
    /\ javaCmd = NoJavaCmd
    /\ last.ret = TRUE
    /\ ~last.ran

\* C18: get_java_gateway never stops a bridge process: in a sequential
\* run the processes still running are all those ever launched, while the
\* global, between calls, refers to the latest of them only.
C18_ReplacedProcessesKeepRunning ==
    /\ running = 1..spawned
    /\ th[MainThread].pc \in {"idle", "done"} => lolopy_gateway = spawned

\* Three launches, three running bridge processes, and the global refers
\* to the third.
C18_Witness ==
    /\ spawned = 3
    /\ running = {1, 2, 3}
    /\ lolopy_gateway = 3
    /\ th[MainThread].pc = "done"
    /\ ~th[MainThread].reuse

\* C19: a call that ends with an exception leaves the global as the call
\* found it and launches nothing that stays: a failed reuse=False call
\* keeps the old gateway stored, a failed call on an empty global leaves
\* it empty.
C19_FailedCallKeepsGlobal ==
    \A t \in Threads :
        (th[t].pc = "done" /\ th[t].exc # NoExc) =>
            /\ lolopy_gateway = th[t].seen
            /\ spawned = th[t].spawn0
            /\ th[t].ret = NoGateway

\* A reuse=False call failed on a missing pom.xml while gateway 1 was
\* stored; gateway 1 is still stored.
C19_Witness ==
    /\ th[MainThread].pc = "done"
    /\ ~th[MainThread].reuse
    /\ th[MainThread].exc = PomMissingErr
    /\ th[MainThread].seen = 1
    /\ lolopy_gateway = 1

\* C20: under any interleaving of calls, once the global holds a gateway
\* it holds one ever after, and what it holds is always the gateway of a
\* completed launch.
C20_GlobalNeverEmptiedAgain ==
    /\ [](firstStored # NoGateway => lolopy_gateway \in 1..spawned)
    /\ [](lolopy_gateway # NoGateway => firstStored # NoGateway)
    /\ [][lolopy_gateway # NoGateway => lolopy_gateway' # NoGateway]_vars

\* With gateway 1 stored, one caller's forced fresh launch failed and the
\* other's call failed on the missing jar; gateway 1 is still stored.
C20_Witness ==
    /\ lolopy_gateway = 1
    /\ th["t1"].pc = "done"
    /\ th["t1"].exc = LaunchErr
    /\ ~th["t1"].reuse
    /\ th["t2"].pc = "done"
    /\ th["t2"].exc = ReinstallErr

====
